---- MODULE Spec2Model ----
(***************************************************************************)
(* A model of the SoundCloud API client (soundcloud_tools/client.py) and   *)
(* of the weekly archive entry point (soundcloud_archive/__main__.py):     *)
(* the route dispatcher (SplitParams.from_route, route.wrapper.caller,     *)
(* Client.make_url, Client.make_request), the pagination helper            *)
(* (Client.get_next_offset), the batched track lookup                      *)
(* (Client.get_all_tracks) and the feed walk of the playlist builder.      *)
(*                                                                         *)
(* Python values are modelled as follows.  A dict is a function whose      *)
(* domain is a set of strings; scalar values are strings ("None" is        *)
(* None, "True" is True); `a | b` and a.update(b) are DictMerge(a, b).     *)
(* A text that the code parses (a next-page URL) is a sequence of tokens,  *)
(* each token a piece of the text; a text the code only builds (a request  *)
(* URL, the ids of a bulk lookup) is a string.                             *)
(***************************************************************************)
EXTENDS Integers, Sequences, FiniteSets, TLC

VARIABLES
    client,     \* the Client object: base_url, headers, params, proxy
    pc,         \* where the current call is: "idle", "awaiting", "done"
    call,       \* the current call: the method called and its keyword arguments
    split_params, \* the SplitParams that from_route built for the current call
    sent,       \* the requests Client.make_request was invoked with in this call
    response,   \* the HTTP response that requests.request returned, if any
    validated,  \* whether TypeAdapter.validate_python ran in this call
    outcome,    \* how the call ended: returned (a value) or raised (an error)
    issued,     \* how many times requests.request was called since construction
    job         \* the state of a get_all_tracks run, a get_next_offset call or a feed walk

vars == <<client, pc, call, split_params, sent, response, validated, outcome, issued, job>>

----------------------------------------------------------------------------
(* Python dicts                                                            *)

EmptyDict == <<>>

\* a | b, and a.update(b): the right operand's value wins on a common key.
DictMerge(a, b) ==
    [k \in (DOMAIN a) \cup (DOMAIN b) |-> IF k \in DOMAIN b THEN b[k] ELSE a[k]]

\* d.get(k, default)
DictGet(d, k, default) == IF k \in DOMAIN d THEN d[k] ELSE default

\* d without the keys in ks (what is left of d after d.pop(k) for k in ks)
DictWithout(d, ks) == [k \in (DOMAIN d) \ ks |-> d[k]]

\* {k: v for k, v in d.items() if k in ks}
DictOnly(d, ks) == [k \in (DOMAIN d) \cap ks |-> d[k]]

\* Python truthiness of a scalar value of the model: None and {} are falsy.
Truthy(v) == v \notin {"None", "{}"}

----------------------------------------------------------------------------
(* The endpoint declarations                                               *)

Lit(t) == [ph |-> FALSE, text |-> t]
Ph(n) == [ph |-> TRUE, text |-> n]

\* A declaration whose stub gives every parameter a default (`= None`).
EndpointAllOptional(method, path, response_model, declared, defaults) ==
    [method |-> method, path |-> path, response_model |-> response_model,
     declared |-> declared,
     defaults |-> [k \in declared |-> DictGet(defaults, k, "None")]]

\* One @route(...) declaration: verb, path template, response schema ("None"
\* when none is declared), the stub's parameters and their declared defaults.
Endpoint(method, path, response_model, declared, defaults) ==
    [method |-> method, path |-> path, response_model |-> response_model,
     declared |-> declared, defaults |-> defaults]

Paged(limit) == ("limit" :> limit) @@ ("offset" :> "None") @@ ("linked_partitioning" :> "True")

Routes ==
    ("post_playlist" :> Endpoint("POST", <<Lit("playlists")>>, "Playlist",
        {"data"}, EmptyDict))
 @@ ("get_playlist" :> Endpoint("GET", <<Lit("playlists/"), Ph("playlist_id")>>, "Playlist",
        {"playlist_id", "show_tracks"}, ("show_tracks" :> "True")))
 @@ ("get_user_likes" :> Endpoint("GET", <<Lit("users/"), Ph("user_id"), Lit("/likes")>>, "Likes",
        {"user_id", "limit", "offset", "linked_partitioning"}, Paged("100")))
 @@ ("get_user_comments" :> Endpoint("GET", <<Lit("users/"), Ph("user_id"), Lit("/comments")>>, "Comments",
        {"user_id", "limit", "offset", "linked_partitioning", "threaded"},
        Paged("100") @@ ("threaded" :> "0")))
 @@ ("get_user_reposts" :> Endpoint("GET", <<Lit("stream/users/"), Ph("user_id"), Lit("/reposts")>>, "Reposts",
        {"user_id", "limit", "offset", "linked_partitioning"}, Paged("100")))
 @@ ("get_user_followings_ids" :> Endpoint("GET", <<Lit("users/"), Ph("user_id"), Lit("/followings/ids")>>, "Followings",
        {"user_id", "limit", "linked_partitioning"},
        ("limit" :> "5000") @@ ("linked_partitioning" :> "True")))
 @@ ("get_user_followers_ids" :> Endpoint("GET", <<Lit("users/"), Ph("user_id"), Lit("/followers/ids")>>, "None",
        {"user_id", "limit", "linked_partitioning"},
        ("limit" :> "5000") @@ ("linked_partitioning" :> "True")))
 @@ ("get_track" :> Endpoint("GET", <<Lit("tracks/"), Ph("track_id")>>, "Track",
        {"track_id"}, EmptyDict))
 @@ ("get_stream" :> Endpoint("GET", <<Lit("stream")>>, "Stream",
        {"user_urn", "sc_a_id", "promoted_playlist", "limit", "offset", "linked_partitioning"},
        ("sc_a_id" :> "settings.sc_a_id") @@ ("promoted_playlist" :> "True")
            @@ ("limit" :> "100") @@ ("offset" :> "0") @@ ("linked_partitioning" :> "True")))
 @@ ("search" :> Endpoint("GET", <<Lit("search")>>, "Search",
        {"q", "limit", "offset"}, ("limit" :> "20") @@ ("offset" :> "0")))
 @@ ("get_artist_shortcuts" :> Endpoint("GET", <<Lit("me/artist-shortcuts")>>, "ArtistShortcuts",
        {"limit", "offset", "linked_partitioning"}, Paged("1000")))
 @@ ("get_artist_shortcut_stories" :> Endpoint("GET", <<Lit("me/artist-shortcuts/stories/"), Ph("user_urn")>>, "ArtistShortcutStories",
        {"user_urn"}, EmptyDict))
 @@ ("update_playlist_image" :> Endpoint("PUT", <<Lit("playlists/"), Ph("playlist_urn"), Lit("/artwork")>>, "PlaylistUpdateImageResponse",
        {"playlist_urn", "data"}, EmptyDict))
 @@ ("get_user_playlists" :> Endpoint("GET", <<Lit("users/"), Ph("user_id"), Lit("/playlists_without_albums")>>, "UserPlaylists",
        {"user_id", "offset", "limit", "linked_partitioning"},
        ("offset" :> "0") @@ ("limit" :> "12") @@ ("linked_partitioning" :> "True")))
 @@ ("get_tracks" :> Endpoint("GET", <<Lit("tracks")>>, "list[Track]",
        {"ids"}, EmptyDict))

RouteNames == DOMAIN Routes

\* compile_path(path)[2]: the names of the template's placeholders.
PathParamNames(path) == {path[i].text : i \in {j \in 1..Len(path) : path[j].ph}}

\* utils.get_default_kwargs(endpoint): the stub's parameters that declare a
\* default, with the default.
GetDefaultKwargs(ep) == ep.defaults

\* endpoint.__annotations__.get("data"): every stub annotates all its
\* parameters, so the annotation exists exactly when "data" is declared.
DataAnnotation(ep) == IF "data" \in ep.declared THEN "schema" ELSE "None"

\* await endpoint(client, **kwargs): Python binds the keyword arguments to the
\* stub's signature, which takes no **kwargs: an undeclared keyword or a
\* missing parameter without default is a TypeError.
EndpointBinds(ep, kwargs) ==
    /\ DOMAIN kwargs \subseteq ep.declared
    /\ (ep.declared \ DOMAIN ep.defaults) \subseteq DOMAIN kwargs

\* What the stub returns: every body is `...`, so None, and `or {}` gives {}.
AdditionalParams(ep, kwargs) == EmptyDict

----------------------------------------------------------------------------
(* SplitParams.from_route                                                  *)

NoContent == <<>>

\* TypeAdapter(data_type).dump_json(data): pydantic serializes the value it
\* is given; dump_json does not validate it against the schema.
DumpJson(data_type, data) == <<"json", data>>

\* {k: v for k, v in full_kwargs.items() if k in expected_path_params}
SplitPath(full_kwargs, expected_path_params) == DictOnly(full_kwargs, expected_path_params)

\* The query params without the filter on the placeholder names.
SplitQueryUnfiltered(full_kwargs, expected_path_params) == full_kwargs

\* {k: v for k, v in full_kwargs.items() if k not in expected_path_params}
SplitQuery(full_kwargs, expected_path_params) == DictWithout(full_kwargs, expected_path_params)

\* No SplitParams: none built yet, or from_route raised `error`.
NoSplit ==
    [ok |-> FALSE, error |-> "", path_params |-> EmptyDict, query_params |-> EmptyDict,
     data |-> "None", content |-> NoContent, kwargs |-> EmptyDict]

FromRoute(ep, kwargs) ==
    LET full_kwargs == DictMerge(GetDefaultKwargs(ep), kwargs)
        additional_params == AdditionalParams(ep, kwargs)
        expected_path_params == PathParamNames(ep.path)
        kwargs0 == DictGet(full_kwargs, "kwargs", EmptyDict)
        kwargs1 == DictMerge(kwargs0, DictGet(additional_params, "kwargs", EmptyDict))
        popped == DictGet(full_kwargs, "data", "None")
        data == IF Truthy(popped) THEN popped
                ELSE DictGet(additional_params, "data", "None")
        content == IF Truthy(data) /\ Truthy(DataAnnotation(ep))
                   THEN DumpJson(DataAnnotation(ep), data)
                   ELSE NoContent
        rest == DictWithout(full_kwargs, {"kwargs", "data"})
        path_params == SplitPath(rest, expected_path_params)
        query0 == SplitQuery(rest, expected_path_params)
        query1 == DictMerge(query0, DictGet(additional_params, "query", EmptyDict))
        query2 == DictMerge(DictWithout(query1, {"params"}),
                            DictGet(query1, "params", EmptyDict))
    IN  IF ~EndpointBinds(ep, kwargs)
        THEN [NoSplit EXCEPT !.error = "TypeError"]
        ELSE [ok |-> TRUE, error |-> "", path_params |-> path_params,
              query_params |-> query2, data |-> data, content |-> content,
              kwargs |-> kwargs1]

----------------------------------------------------------------------------
(* Client                                                                  *)

\* Client.__init__
NewClient(proxy) ==
    [base_url |-> "https://api",
     headers |-> ("Authorization" :> "OAuth token") @@ ("User-Agent" :> "agent")
                    @@ ("x-datadome-clientid" :> "datadome"),
     params |-> ("client_id" :> "settings.client_id") @@ ("app_version" :> "1739181955")
                    @@ ("app_locale" :> "en"),
     proxy |-> proxy,
     proxies |-> IF proxy # "" THEN ("https://" :> ("https://" \o proxy)) ELSE EmptyDict]

\* Client.json_dump: a dict is no BaseModel and is returned as it is.
JsonDump(data) == data

RECURSIVE FormatFrom(_, _, _)
\* path.format(**path_params) from segment i on
FormatFrom(path, path_params, i) ==
    IF i > Len(path) THEN ""
    ELSE (IF path[i].ph THEN path_params[path[i].text] ELSE path[i].text)
            \o FormatFrom(path, path_params, i + 1)

\* Client.make_url: str.format raises KeyError on a placeholder without value.
MakeUrl(c, path, path_params) ==
    IF PathParamNames(path) \subseteq DOMAIN path_params
    THEN [ok |-> TRUE, error |-> "",
          text |-> c.base_url \o "/" \o FormatFrom(path, path_params, 1)]
    ELSE [ok |-> FALSE, error |-> "KeyError", text |-> ""]

\* Client.make_request up to requests.request(method, url, **kwargs): the
\* request as it goes out.
MakeRequest(c, method, url, kwargs) ==
    [method |-> method,
     url |-> url,
     params |-> DictMerge(DictGet(kwargs, "params", EmptyDict), c.params),
     headers |-> DictMerge(DictGet(kwargs, "headers", EmptyDict), c.headers),
     data |-> DictGet(kwargs, "data", NoContent),
     proxies |-> DictGet(kwargs, "proxies", IF c.proxy # "" THEN c.proxies ELSE EmptyDict),
     verify |-> DictGet(kwargs, "verify", FALSE)]

----------------------------------------------------------------------------
(* The calls a program makes and what the network answers                  *)

CallerVals == {"c1", "c2"}

\* A body payload: an empty mapping, one that fits the endpoint's schema, one
\* that does not.
DataVals == {"{}", "valid", "invalid"}

\* The keyword arguments a caller may pass to a route-generated method: any
\* of the stub's parameters, and `params`, which no stub declares.
KwargsFor(ep) ==
    LET names == (ep.declared \cup {"params"}) \ {"data"}
        plain == UNION {[S -> CallerVals] : S \in SUBSET names}
    IN  IF "data" \in ep.declared
        THEN plain \cup {f @@ ("data" :> d) : f \in plain, d \in DataVals}
        ELSE plain

\* The request-scoped query params and headers of a direct make_request call.
DirectDicts(keys) == UNION {[S -> {"caller"}] : S \in SUBSET keys}

DirectKwargs ==
    LET ps == DirectDicts({"client_id", "q"})
        hs == DirectDicts({"Authorization", "Accept"})
    IN  {EmptyDict}
        \cup {("params" :> p) : p \in ps}
        \cup {("headers" :> h) : h \in hs}
        \cup {("params" :> p) @@ ("headers" :> h) : p \in ps, h \in hs}

\* A response body: whether response.json() parses it, whether the parsed
\* structure fits the route's response schema, and the structure (or text).
Body(json, conforms, data) == [json |-> json, conforms |-> conforms, data |-> data]

NotJson == Body(FALSE, FALSE, "<html>")

Bodies == {NotJson, Body(TRUE, TRUE, "conforming"), Body(TRUE, FALSE, "nonconforming")}

Statuses == {200, 404}

NoResponse == [status |-> 0, body |-> Body(FALSE, FALSE, "")]

NoData == ""

Pending == [kind |-> "pending", error |-> "", tag |-> "", schema |-> "", data |-> NoData]
Raised(e) == [kind |-> "raised", error |-> e, tag |-> "", schema |-> "", data |-> NoData]
Returned(tag, schema, data) ==
    [kind |-> "returned", error |-> "", tag |-> tag, schema |-> schema, data |-> data]

NoCall == [route |-> "", kwargs |-> EmptyDict]

NoJob == <<>>

\* The requests one run issues, a bound of the model.
MaxRequests == 2

\* The caller without its `except json.decoder.JSONDecodeError`.
CallerResultUncaught(response_model, body) ==
    IF ~body.json
    THEN [outcome |-> Raised("JSONDecodeError"), validated |-> FALSE]
    ELSE IF ~Truthy(response_model)
    THEN [outcome |-> Returned("raw", "", body.data), validated |-> FALSE]
    ELSE [outcome |-> IF body.conforms
                      THEN Returned("model", response_model, body.data)
                      ELSE Raised("ValidationError"),
          validated |-> TRUE]

\* The caller building the model without validation (model_construct).
CallerResultUnvalidated(response_model, body) ==
    IF ~body.json
    THEN [outcome |-> Returned("None", "", NoData), validated |-> FALSE]
    ELSE IF ~Truthy(response_model)
    THEN [outcome |-> Returned("raw", "", body.data), validated |-> FALSE]
    ELSE [outcome |-> Returned("model", response_model, body.data), validated |-> FALSE]

\* route.wrapper.caller after the response arrived (lines 70-77): what the
\* call gives back, and whether the response schema was applied.
CallerResult(response_model, body) ==
    IF ~body.json
    THEN [outcome |-> Returned("None", "", NoData), validated |-> FALSE]
    ELSE IF ~Truthy(response_model)
    THEN [outcome |-> Returned("raw", "", body.data), validated |-> FALSE]
    ELSE [outcome |-> IF body.conforms
                      THEN Returned("model", response_model, body.data)
                      ELSE Raised("ValidationError"),
          validated |-> TRUE]

InitRoute ==
    /\ client \in {NewClient(p) : p \in {"", "proxy:8080"}}
    /\ pc = "idle"
    /\ call = NoCall
    /\ split_params = NoSplit
    /\ sent = <<>>
    /\ response = NoResponse
    /\ validated = FALSE
    /\ outcome = Pending
    /\ issued = 0
    /\ job = NoJob

\* route.wrapper.caller up to the await of requests.request (lines 59-69 and
\* make_request's lines 103-109).
CallRoute(r, kwargs) ==
    LET ep == Routes[r]
        sp == FromRoute(ep, kwargs)
        url == MakeUrl(client, ep.path, sp.path_params)
        passed == ("data" :> sp.content) @@ ("params" :> JsonDump(sp.query_params))
                    @@ sp.kwargs
    IN  /\ call' = [route |-> r, kwargs |-> kwargs]
        /\ split_params' = sp
        /\ IF ~sp.ok
           THEN /\ outcome' = Raised(sp.error)
                /\ pc' = "done"
                /\ UNCHANGED <<sent, issued>>
           ELSE IF ~url.ok
           THEN /\ outcome' = Raised(url.error)
                /\ pc' = "done"
                /\ UNCHANGED <<sent, issued>>
           ELSE /\ sent' = Append(sent, MakeRequest(client, ep.method, url.text, passed))
                /\ issued' = issued + 1
                /\ pc' = "awaiting"
                /\ outcome' = Pending
        /\ UNCHANGED <<client, response, validated, job>>

\* A direct call of Client.make_request(method, url, **kwargs), as
\* get_track_id and _make_request make it.
CallMakeRequest(kwargs) ==
    /\ call' = [route |-> "make_request", kwargs |-> kwargs]
    /\ sent' = Append(sent, MakeRequest(client, "GET", "https://soundcloud.com/track", kwargs))
    /\ issued' = issued + 1
    /\ pc' = "awaiting"
    /\ outcome' = Pending
    /\ UNCHANGED <<client, split_params, response, validated, job>>

\* A transport error answered by issuing the request once more.
TransportErrorRetried ==
    /\ pc = "awaiting"
    /\ issued < MaxRequests
    /\ sent' = Append(sent, sent[Len(sent)])
    /\ issued' = issued + 1
    /\ UNCHANGED <<client, pc, call, split_params, response, validated, outcome, job>>

\* requests.request raises (connection refused, timeout, ...): nothing catches
\* it in make_request or in the caller.
TransportError ==
    /\ pc = "awaiting"
    /\ outcome' = Raised("ConnectionError")
    /\ pc' = "done"
    /\ UNCHANGED <<client, call, split_params, sent, response, validated, issued, job>>

\* requests.request returns: the rest of make_request (lines 110-111) and, for
\* a route-generated method, of the caller (lines 70-77).
Respond(status, body) ==
    /\ pc = "awaiting"
    /\ response' = [status |-> status, body |-> body]
    /\ pc' = "done"
    /\ IF call.route = "make_request"
       THEN /\ outcome' = Returned("response", "", body.data)
            /\ validated' = FALSE
       ELSE LET res == CallerResult(Routes[call.route].response_model, body)
            IN  /\ outcome' = res.outcome
                /\ validated' = res.validated
    /\ UNCHANGED <<client, call, split_params, sent, issued, job>>

\* The call is over; its SplitParams, request and response are discarded.
Finish ==
    /\ pc = "done"
    /\ pc' = "idle"
    /\ call' = NoCall
    /\ split_params' = NoSplit
    /\ sent' = <<>>
    /\ response' = NoResponse
    /\ validated' = FALSE
    /\ outcome' = Pending
    /\ UNCHANGED <<client, issued, job>>

StartCall ==
    /\ pc = "idle"
    /\ issued < MaxRequests
    /\ \/ \E r \in RouteNames : \E kwargs \in KwargsFor(Routes[r]) : CallRoute(r, kwargs)
       \/ \E kwargs \in DirectKwargs : CallMakeRequest(kwargs)

NextRoute ==
    \/ StartCall
    \/ TransportError
    \/ \E status \in Statuses, body \in Bodies : Respond(status, body)
    \/ Finish

SpecRoute == InitRoute /\ [][NextRoute]_vars

----------------------------------------------------------------------------
(* The route dispatcher: what the calls guarantee                          *)

RouteCall == pc # "idle" /\ call.route \in RouteNames

CurrentEndpoint == Routes[call.route]

\* The query params (resp. headers) the caller of make_request passed: for a
\* direct call its keyword arguments, for a route-generated method the query
\* params of the SplitParams.
RequestScoped(key) ==
    IF call.route = "make_request" THEN DictGet(call.kwargs, key, EmptyDict)
    ELSE IF key = "params" THEN split_params.query_params
    ELSE DictGet(split_params.kwargs, key, EmptyDict)

\* C1: in every request make_request issues, a key the caller supplied in
\* the request-scoped query params (resp. headers) is sent with the caller's
\* value; the client-wide defaults only fill the keys the caller left out.
C1_CallerKeysTakePrecedence ==
    \A i \in 1..Len(sent) :
        /\ \A k \in DOMAIN RequestScoped("params") :
                sent[i].params[k] = RequestScoped("params")[k]
        /\ \A k \in DOMAIN RequestScoped("headers") :
                sent[i].headers[k] = RequestScoped("headers")[k]

\* C2: a route-generated method whose response body is not JSON returns None
\* and does not raise, whatever the status code and whether or not a response
\* schema is declared, and the schema is never applied to such a response.
C2_UnparseableReturnsNone ==
    (RouteCall /\ pc = "done" /\ response.status # 0 /\ ~response.body.json)
        => /\ outcome = Returned("None", "", NoData)
           /\ ~validated

C2_Witness ==
    /\ RouteCall /\ pc = "done"
    /\ response = [status |-> 404, body |-> NotJson]
    /\ Truthy(CurrentEndpoint.response_model)
    /\ outcome.kind = "returned" /\ outcome.tag = "None"

\* C3: with a declared response schema, a response that parses as JSON and
\* violates the schema ends the call in an error (no value is returned);
\* without a declared schema the parsed structure is returned unchanged.
C3_SchemaViolationRaises ==
    (RouteCall /\ pc = "done" /\ response.body.json)
        => IF Truthy(CurrentEndpoint.response_model)
           THEN ~response.body.conforms
                    => (outcome.kind = "raised" /\ outcome.error = "ValidationError")
           ELSE outcome = Returned("raw", "", response.body.data)

C3_Witness ==
    /\ RouteCall /\ pc = "done"
    /\ response.body.json /\ ~response.body.conforms
    /\ Truthy(CurrentEndpoint.response_model)
    /\ validated
    /\ outcome.kind = "raised"

\* The placeholders of the current route's template the caller gave no value.
MissingPathParams == PathParamNames(CurrentEndpoint.path) \ DOMAIN call.kwargs

\* C4: a call of a route-generated method that leaves a placeholder of the
\* path template without value ends in an error, make_request is not invoked
\* during it, and no default stands in for the missing path parameter.
C4_MissingPathParamFailsFast ==
    (RouteCall /\ MissingPathParams # {})
        => /\ pc = "done"
           /\ outcome.kind = "raised"
           /\ sent = <<>>
           /\ \A k \in MissingPathParams : k \notin DOMAIN split_params.path_params

C4_Witness ==
    /\ RouteCall /\ call.route = "get_user_likes"
    /\ DOMAIN call.kwargs = {"limit"}
    /\ outcome = Raised("TypeError")
    /\ sent = <<>>

\* C5: when a body payload is supplied and the endpoint declares a type for
\* `data`, the request that goes out carries the payload serialized with that
\* schema, and a payload that violates the schema ends the call in an error
\* without any request being issued.
C5_BodySerializedAndValidated ==
    (RouteCall /\ "data" \in DOMAIN call.kwargs /\ Truthy(DataAnnotation(CurrentEndpoint)))
        => /\ \A i \in 1..Len(sent) :
                sent[i].data = DumpJson(DataAnnotation(CurrentEndpoint), call.kwargs["data"])
           /\ call.kwargs["data"] = "invalid"
                => (sent = <<>> /\ pc = "done" /\ outcome.kind = "raised")

\* The value from_route works with for key k: the caller's, else the
\* declared default.
Effective(k) ==
    IF k \in DOMAIN call.kwargs THEN call.kwargs[k] ELSE CurrentEndpoint.defaults[k]

EffectiveKeys ==
    ((DOMAIN CurrentEndpoint.defaults) \cup (DOMAIN call.kwargs)) \ {"data", "kwargs"}

RECURSIVE ExpectedPath(_, _)
\* The path with each placeholder replaced by the value the caller passed.
ExpectedPath(path, i) ==
    IF i > Len(path) THEN ""
    ELSE (IF path[i].ph THEN call.kwargs[path[i].text] ELSE path[i].text)
            \o ExpectedPath(path, i + 1)

C10_OneRequestPerCall ==
    RouteCall
        => /\ Len(sent) = IF split_params.ok
                                /\ MakeUrl(client, CurrentEndpoint.path, split_params.path_params).ok
                          THEN 1 ELSE 0
           /\ outcome.kind = "raised" /\ outcome.error \in {"TypeError", "KeyError"}
                => sent = <<>>

C10_Witness ==
    /\ RouteCall /\ pc = "done"
    /\ outcome = Raised("ConnectionError")
    /\ Len(sent) = 1
    /\ issued = MaxRequests

----------------------------------------------------------------------------
(* Client.get_all_tracks                                                   *)

\* The longest list of track ids and the largest chunk size, bounds of the model.
MaxIds == 5
MaxChunkSize == 3

TrackIdValues == {4, 15}

TrackIdLists == UNION {[1..n -> TrackIdValues] : n \in 0..MaxIds}

Min(a, b) == IF a < b THEN a ELSE b

\* ceil(n / k)
CeilDiv(n, k) == (n + k - 1) \div k

\* utils.chunk_list(lst, n): the consecutive chunks of at most n elements.
ChunkList(lst, n) ==
    [j \in 1..CeilDiv(Len(lst), n) |-> SubSeq(lst, (j - 1) * n + 1, Min(j * n, Len(lst)))]

RECURSIVE PrepareTrackIds(_)
\* Client.prepare_track_ids: ",".join(map(str, ids))
PrepareTrackIds(ids) ==
    IF Len(ids) = 0 THEN ""
    ELSE IF Len(ids) = 1 THEN ToString(ids[1])
    ELSE ToString(ids[1]) \o "," \o PrepareTrackIds(Tail(ids))

\* The track the API holds for an id.
Track(id) == [id |-> id]

TracksOf(ids) == [i \in 1..Len(ids) |-> Track(ids[i])]

Reverse(seq) == [i \in 1..Len(seq) |-> seq[Len(seq) + 1 - i]]

\* The lists of tracks the API may answer a bulk lookup of `ids` with: the
\* tracks in the order asked, or in its own.
TrackBodies(ids) ==
    {Body(TRUE, TRUE, TracksOf(ids)), Body(TRUE, TRUE, Reverse(TracksOf(ids)))}

\* The comprehension's result grown by one batch, with the batch put first.
ExtendFront(tracks, batch) == batch \o tracks

\* The list comprehension of get_all_tracks appends the tracks of a batch, in
\* the batch's order, to the tracks of the batches before it.
Extend(tracks, batch) == tracks \o batch

InitTracks ==
    /\ client \in {NewClient(p) : p \in {"", "proxy:8080"}}
    /\ pc = "idle"
    /\ call = NoCall
    /\ split_params = NoSplit
    /\ sent = <<>>
    /\ response = NoResponse
    /\ validated = FALSE
    /\ outcome = Pending
    /\ issued = 0
    /\ \E ids \in TrackIdLists, k \in 1..MaxChunkSize :
            job = [kind |-> "get_all_tracks", track_ids |-> ids, chunk_size |-> k,
                   chunks |-> ChunkList(ids, k), next |-> 1, requests |-> <<>>,
                   results |-> <<>>, tracks |-> <<>>, status |-> "running", error |-> ""]

\* The next chunk's `await self.get_tracks(ids=self.prepare_track_ids(chunk))`.
GetTracks ==
    /\ pc = "idle"
    /\ job.status = "running"
    /\ job.next <= Len(job.chunks)
    /\ CallRoute("get_tracks", ("ids" :> PrepareTrackIds(job.chunks[job.next])))

\* The API answers the bulk lookup: with no JSON, with JSON that is no list
\* of tracks, or with the tracks.
TracksRespond ==
    /\ pc = "awaiting"
    /\ \E status \in Statuses :
            \/ Respond(status, NotJson)
            \/ Respond(status, Body(TRUE, FALSE, "nonconforming"))
            \/ \E body \in TrackBodies(job.chunks[job.next]) : Respond(status, body)

\* get_tracks is over: an error propagates, None cannot be iterated
\* (TypeError), a list of tracks extends the result.
GetAllTracksResume ==
    /\ pc = "done"
    /\ job.status = "running"
    /\ job' = IF outcome.kind = "raised"
              THEN [job EXCEPT !.requests = @ \o sent, !.status = "raised",
                               !.error = outcome.error]
              ELSE IF outcome.tag = "None"
              THEN [job EXCEPT !.requests = @ \o sent, !.status = "raised",
                               !.error = "TypeError"]
              ELSE [job EXCEPT !.requests = @ \o sent,
                               !.results = Append(@, outcome.data),
                               !.tracks = Extend(@, outcome.data),
                               !.next = @ + 1]
    /\ pc' = "idle"
    /\ call' = NoCall
    /\ split_params' = NoSplit
    /\ sent' = <<>>
    /\ response' = NoResponse
    /\ validated' = FALSE
    /\ outcome' = Pending
    /\ UNCHANGED <<client, issued>>

\* No chunk is left: the comprehension's list is returned.
GetAllTracksReturn ==
    /\ pc = "idle"
    /\ job.status = "running"
    /\ job.next > Len(job.chunks)
    /\ job' = [job EXCEPT !.status = "returned"]
    /\ UNCHANGED <<client, pc, call, split_params, sent, response, validated, outcome, issued>>

NextTracks ==
    \/ GetTracks
    \/ TransportError
    \/ TracksRespond
    \/ GetAllTracksResume
    \/ GetAllTracksReturn

SpecTracks == InitTracks /\ [][NextTracks]_vars

RECURSIVE Flatten(_)
Flatten(seqs) == IF Len(seqs) = 0 THEN <<>> ELSE Head(seqs) \o Flatten(Tail(seqs))

\* The ids of the j-th batch of a run over n ids in chunks of k.
ExpectedBatch(j) ==
    SubSeq(job.track_ids, (j - 1) * job.chunk_size + 1,
           Min(j * job.chunk_size, Len(job.track_ids)))

\* C7: get_all_tracks over n ids with chunk size k >= 1 issues its get_tracks
\* requests one after the other, the j-th for the j-th consecutive chunk of at
\* most k ids; when it returns it has issued exactly ceil(n/k) of them and its
\* list is the concatenation of the batch results in that order, which is the
\* order of the ids when every batch comes back in the order asked.
C7_BatchesInOrder ==
    LET n == Len(job.track_ids)
        k == job.chunk_size
        all == job.requests \o sent
    IN  /\ Len(all) <= CeilDiv(n, k)
        /\ issued = Len(all)
        /\ \A j \in 1..Len(all) :
                /\ all[j].params["ids"] = PrepareTrackIds(ExpectedBatch(j))
                /\ Len(ExpectedBatch(j)) \in 1..k
                /\ j < CeilDiv(n, k) => Len(ExpectedBatch(j)) = k
        /\ Len(sent) = 1 => Len(job.results) = Len(job.requests)
        /\ job.status = "returned"
            => /\ Len(job.requests) = CeilDiv(n, k)
               /\ job.tracks = Flatten(job.results)
               /\ (\A j \in 1..Len(job.results) : job.results[j] = TracksOf(ExpectedBatch(j)))
                    => job.tracks = TracksOf(job.track_ids)

C7_Witness ==
    /\ job.status = "returned"
    /\ job.track_ids = <<4, 15, 15, 4, 15>>
    /\ job.chunk_size = 2
    /\ Len(job.requests) = 3
    /\ job.requests[1].params["ids"] = "4,15"
    /\ job.requests[2].params["ids"] = "15,4"
    /\ job.requests[3].params["ids"] = "15"
    /\ job.tracks = <<Track(4), Track(15), Track(15), Track(4), Track(15)>>

----------------------------------------------------------------------------
(* Client.get_next_offset                                                  *)

\* An href is None (present = FALSE) or a text, the sequence of its pieces:
\* "?", "&", "=", "#" and "+" are those characters, any other piece is a run
\* of characters free of them and of "%".
NoHref == [present |-> FALSE, text |-> <<>>]
Href(text) == [present |-> TRUE, text |-> text]

RECURSIVE IndexOf(_, _, _)
\* The first position from i on where seq holds d, 0 when there is none.
IndexOf(seq, d, i) ==
    IF i > Len(seq) THEN 0
    ELSE IF seq[i] = d THEN i
    ELSE IndexOf(seq, d, i + 1)

\* text.split(d, 1): the text before and after the first d.
Before(seq, d) ==
    IF IndexOf(seq, d, 1) = 0 THEN seq ELSE SubSeq(seq, 1, IndexOf(seq, d, 1) - 1)
After(seq, d) ==
    IF IndexOf(seq, d, 1) = 0 THEN <<>> ELSE SubSeq(seq, IndexOf(seq, d, 1) + 1, Len(seq))

RECURSIVE SplitOn(_, _)
\* text.split(d)
SplitOn(seq, d) ==
    IF IndexOf(seq, d, 1) = 0 THEN <<seq>>
    ELSE <<Before(seq, d)>> \o SplitOn(After(seq, d), d)

RECURSIVE Text(_)
\* The string a sequence of pieces spells.
Text(seq) == IF Len(seq) = 0 THEN "" ELSE Head(seq) \o Text(Tail(seq))

\* urllib.parse.unquote(s.replace("+", " ")), for a text without "%".
UnquotePlus(seq) == Text([i \in 1..Len(seq) |-> IF seq[i] = "+" THEN " " ELSE seq[i]])

\* urlparse(href).query: the fragment is cut at the first "#", then the query
\* is what follows the first "?".
UrlQuery(text) == After(Before(text, "#"), "?")

RECURSIVE ParseFields(_, _)
\* The loop of urllib.parse.parse_qsl over the "&"-separated fields, with its
\* defaults keep_blank_values=False and strict_parsing=False: an empty field, a
\* field without "=" and a field with an empty value are skipped.
ParseFields(fields, i) ==
    IF i > Len(fields) THEN <<>>
    ELSE LET f == fields[i]
             skipped == \/ Len(f) = 0
                        \/ IndexOf(f, "=", 1) = 0
                        \/ Len(After(f, "=")) = 0
         IN  (IF skipped THEN <<>>
              ELSE <<[name |-> UnquotePlus(Before(f, "=")),
                      value |-> UnquotePlus(After(f, "="))]>>)
             \o ParseFields(fields, i + 1)

ParseQsl(query) == IF Len(query) = 0 THEN <<>> ELSE ParseFields(SplitOn(query, "&"), 1)

RECURSIVE ValuesOf(_, _, _)
ValuesOf(pairs, name, i) ==
    IF i > Len(pairs) THEN <<>>
    ELSE (IF pairs[i].name = name THEN <<pairs[i].value>> ELSE <<>>)
            \o ValuesOf(pairs, name, i + 1)

\* urllib.parse.parse_qs: each name with the list of its values, in order.
ParseQs(query) ==
    LET pairs == ParseQsl(query)
    IN  [n \in {pairs[i].name : i \in 1..Len(pairs)} |-> ValuesOf(pairs, n, 1)]

NoOffset == [some |-> FALSE, value |-> ""]
SomeOffset(v) == [some |-> TRUE, value |-> v]

\* get_next_offset reading the query parameter `cursor`.
GetNextOffsetWrongKey(href) ==
    IF ~href.present \/ Len(href.text) = 0 THEN NoOffset
    ELSE LET offset == DictGet(ParseQs(UrlQuery(href.text)), "cursor", <<>>)
         IN  IF Len(offset) = 0 THEN NoOffset ELSE SomeOffset(offset[1])

\* get_next_offset taking the last of the values of `offset`.
GetNextOffsetLast(href) ==
    IF ~href.present \/ Len(href.text) = 0 THEN NoOffset
    ELSE LET offset == DictGet(ParseQs(UrlQuery(href.text)), "offset", <<>>)
         IN  IF Len(offset) = 0 THEN NoOffset ELSE SomeOffset(offset[Len(offset)])

\* Client.get_next_offset
GetNextOffset(href) ==
    IF ~href.present \/ Len(href.text) = 0 THEN NoOffset
    ELSE LET offset == DictGet(ParseQs(UrlQuery(href.text)), "offset", <<>>)
         IN  IF Len(offset) = 0 THEN NoOffset ELSE SomeOffset(offset[1])

\* The most query parameters of a next-page URL and the longest value of one,
\* bounds of the model.
MaxQueryParams == 2
MaxValueLen == 2

\* The values a query parameter may have, as texts before encoding.
ValueChars == {"A", " "}
QueryValues == UNION {[1..n -> ValueChars] : n \in 0..MaxValueLen}

\* A query parameter of a URL: its name, whether an "=" follows the name, and
\* its value (empty without "=").
QueryParam(name, eq, value) == [name |-> name, eq |-> eq, value |-> value]

QueryParamSet ==
    {QueryParam(n, TRUE, v) : n \in {"offset", "limit"}, v \in QueryValues}
        \cup {QueryParam(n, FALSE, <<>>) : n \in {"offset", "limit"}}

QueryLists == UNION {[1..n -> QueryParamSet] : n \in 0..MaxQueryParams}

\* urlencode of a value: a space is written "+".
EncodeValue(value) == [i \in 1..Len(value) |-> IF value[i] = " " THEN "+" ELSE value[i]]

RECURSIVE EncodeQuery(_, _)
EncodeQuery(params, i) ==
    IF i > Len(params) THEN <<>>
    ELSE (IF i > 1 THEN <<"&">> ELSE <<>>)
            \o <<params[i].name>>
            \o (IF params[i].eq THEN <<"=">> \o EncodeValue(params[i].value) ELSE <<>>)
            \o EncodeQuery(params, i + 1)

\* The text of the URL with these query parameters and, maybe, a fragment.
UrlText(params, fragment) ==
    <<"https://api/feed">>
        \o (IF Len(params) = 0 THEN <<>> ELSE <<"?">> \o EncodeQuery(params, 1))
        \o (IF fragment THEN <<"#", "top">> ELSE <<>>)

OffsetJob(given, params, fragment, href) ==
    [kind |-> "get_next_offset", given |-> given, params |-> params,
     fragment |-> fragment, href |-> href, status |-> "called", result |-> NoOffset]

InitOffset ==
    /\ client \in {NewClient(p) : p \in {"", "proxy:8080"}}
    /\ pc = "idle"
    /\ call = NoCall
    /\ split_params = NoSplit
    /\ sent = <<>>
    /\ response = NoResponse
    /\ validated = FALSE
    /\ outcome = Pending
    /\ issued = 0
    /\ \/ job = OffsetJob("None", <<>>, FALSE, NoHref)
       \/ job = OffsetJob("empty", <<>>, FALSE, Href(<<>>))
       \/ \E params \in QueryLists, fragment \in BOOLEAN :
            job = OffsetJob("url", params, fragment, Href(UrlText(params, fragment)))

\* Client.get_next_offset(href) is called and returns.
CallGetNextOffset ==
    /\ job.status = "called"
    /\ job' = [job EXCEPT !.status = "returned", !.result = GetNextOffset(job.href)]
    /\ UNCHANGED <<client, pc, call, split_params, sent, response, validated, outcome, issued>>

NextOffset == CallGetNextOffset

SpecOffset == InitOffset /\ [][NextOffset]_vars

\* The positions of the URL's query parameters `offset=...`.
OffsetParams == {i \in 1..Len(job.params) : job.params[i].name = "offset" /\ job.params[i].eq}

\* Those with a value that is not empty.
FilledOffsetParams == {i \in OffsetParams : Len(job.params[i].value) > 0}

First(S) == CHOOSE i \in S : \A j \in S : i <= j

\* C8 as stated: get_next_offset returns the value of the URL's `offset` query
\* parameter, and None when the URL is absent or empty or has no `offset`
\* parameter.
C8_ReturnsOffsetParameter ==
    job.status = "returned"
        => IF job.given # "url" \/ OffsetParams = {}
           THEN job.result = NoOffset
           ELSE /\ job.result.some
                /\ \E i \in OffsetParams : job.result.value = Text(job.params[i].value)

\* C8, amended: get_next_offset returns the first non-empty value of the
\* URL's `offset` query parameter, and None when the URL is absent or empty or
\* has no `offset` parameter with a non-empty value; the client's state plays
\* no part in the result and is left as constructed.
C8_ReturnsFirstFilledOffset ==
    /\ job.status = "returned"
        => IF job.given # "url" \/ FilledOffsetParams = {}
           THEN job.result = NoOffset
           ELSE job.result = SomeOffset(Text(job.params[First(FilledOffsetParams)].value))
    /\ client = NewClient(client.proxy)

C8_Witness ==
    /\ job.status = "returned"
    /\ job.href = Href(<<"https://api/feed", "?", "limit", "=", "A", "&", "offset", "=", "A", "+">>)
    /\ job.result = SomeOffset("A ")

----------------------------------------------------------------------------
(* The playlist builder's walk of the activity feeds                       *)

\* The longest feed of one activity type and the largest page of the API,
\* bounds of the model.
MaxFeedLen == 4
MaxPageSize == 2

\* main(): the activity types the weekly playlist is built from.
WalkTypes == <<"track-repost", "track">>

\* The route-generated method that serves an activity type's feed.
FeedRoute(type) == IF type = "track-repost" THEN "get_user_reposts" ELSE "get_user_likes"

\* A feed item is inside the target week ("in") or older than its start
\* ("before"); the i-th item of the t-th type's feed is about track 10 t + i.
Feeds == UNION {[1..n -> {"in", "before"}] : n \in 0..MaxFeedLen}

Item(t, i, when) == [track |-> 10 * t + i, when |-> when]

\* The page of the t-th feed that starts at item `start`, and the next-page
\* URL the API adds while items are left.
Page(feed, t, start, size) ==
    LET last == Min(start + size - 1, Len(feed))
    IN  [collection |-> [i \in 1..(last - start + 1) |->
                            Item(t, start + i - 1, feed[start + i - 1])],
         next_href |-> IF last < Len(feed)
                       THEN Href(UrlText(<<QueryParam("limit", TRUE, <<ToString(size)>>),
                                           QueryParam("offset", TRUE, <<ToString(last + 1)>>)>>,
                                         FALSE))
                       ELSE NoHref]

\* The item a cursor of the API stands for; the first without cursor.
StartOf(offset, feed) ==
    IF offset = "None" THEN 1
    ELSE CHOOSE i \in 1..(Len(feed) + 1) : ToString(i) = offset

RECURSIVE FirstBefore(_, _)
\* The position of the first item older than the week's start, 0 if none.
FirstBefore(items, i) ==
    IF i > Len(items) THEN 0
    ELSE IF items[i].when = "before" THEN i
    ELSE FirstBefore(items, i + 1)

InitWalk ==
    /\ client = NewClient("")
    /\ pc = "idle"
    /\ call = NoCall
    /\ split_params = NoSplit
    /\ sent = <<>>
    /\ response = NoResponse
    /\ validated = FALSE
    /\ outcome = Pending
    /\ issued = 0
    /\ \E f1 \in Feeds, f2 \in Feeds, size \in 1..MaxPageSize :
            job = [kind |-> "walk", feeds |-> <<f1, f2>>, page_size |-> size,
                   type |-> 1, cursor |-> NoOffset,
                   fetched |-> <<<<>>, <<>>>>, kept |-> <<<<>>, <<>>>>,
                   status |-> "running", error |-> ""]

\* The walk requests the next page of the current type's feed.
WalkFetch ==
    /\ pc = "idle"
    /\ job.status = "running"
    /\ job.type <= Len(WalkTypes)
    /\ CallRoute(FeedRoute(WalkTypes[job.type]),
                 ("user_id" :> "settings.user_id")
                    @@ (IF job.cursor.some THEN ("offset" :> job.cursor.value) ELSE EmptyDict))

\* The API answers: with no JSON, with JSON that is no page, or with the page
\* the request's offset stands for.
WalkRespond ==
    /\ pc = "awaiting"
    /\ \E status \in Statuses :
            \/ Respond(status, NotJson)
            \/ Respond(status, Body(TRUE, FALSE, "nonconforming"))
            \/ LET feed == job.feeds[job.type]
                   start == StartOf(sent[1].params["offset"], feed)
               IN  Respond(status, Body(TRUE, TRUE, Page(feed, job.type, start, job.page_size)))

\* The page arrived: its items are inspected in order, the in-window ones are
\* kept up to the first item older than the week's start, which ends the
\* type's walk; without such an item the walk goes on at the next-page cursor,
\* and ends when the page has none.
WalkResume ==
    /\ pc = "done"
    /\ job.status = "running"
    /\ LET t == job.type
           start == StartOf(sent[1].params["offset"], job.feeds[t])
           fetched == [job.fetched EXCEPT ![t] = Append(@, start)]
       IN  IF outcome.kind = "raised" \/ outcome.tag = "None"
           THEN job' = [job EXCEPT !.fetched = fetched, !.status = "raised",
                                   !.error = IF outcome.kind = "raised" THEN outcome.error
                                             ELSE "AttributeError"]
           ELSE LET page == outcome.data
                    stop == FirstBefore(page.collection, 1)
                    seen == IF stop = 0 THEN page.collection
                            ELSE SubSeq(page.collection, 1, stop - 1)
                    kept == [job.kept EXCEPT ![t] = @ \o [i \in 1..Len(seen) |-> seen[i].track]]
                    next == GetNextOffset(page.next_href)
                    over == stop # 0 \/ ~next.some
                    type == IF over THEN t + 1 ELSE t
                IN  job' = [job EXCEPT !.fetched = fetched, !.kept = kept,
                                       !.type = type,
                                       !.cursor = IF over THEN NoOffset ELSE next,
                                       !.status = IF type > Len(WalkTypes) THEN "walked"
                                                  ELSE "running"]
    /\ pc' = "idle"
    /\ call' = NoCall
    /\ split_params' = NoSplit
    /\ sent' = <<>>
    /\ response' = NoResponse
    /\ validated' = FALSE
    /\ outcome' = Pending
    /\ UNCHANGED <<client, issued>>

NextWalk ==
    \/ WalkFetch
    \/ TransportError
    \/ WalkRespond
    \/ WalkResume

SpecWalk == InitWalk /\ [][NextWalk]_vars

\* The items of the t-th feed as the API holds them.
FeedItems(t) == [i \in 1..Len(job.feeds[t]) |-> Item(t, i, job.feeds[t][i])]

\* The pages the t-th type's walk was given so far, the one in flight included.
Requested(t) ==
    job.fetched[t]
        \o (IF job.status = "running" /\ job.type = t /\ Len(sent) = 1
            THEN <<StartOf(sent[1].params["offset"], job.feeds[t])>> ELSE <<>>)

\* C9: in the walk of one activity type's feed, the pages are requested in
\* order along the next-page cursor; no page is requested past the first item
\* older than the week's start; when the type's walk is over without error,
\* exactly the items before that item were kept (all of the feed when it has
\* no such item), and the walk has read the feed up to that item (to its last
\* page when it has none).
C9_WalkStopsAtFirstOlderItem ==
    \A t \in 1..Len(WalkTypes) :
        LET items == FeedItems(t)
            n == Len(items)
            stop == FirstBefore(items, 1)
            pages == Requested(t)
            size == job.page_size
            finished == job.status = "walked" \/ (job.status = "running" /\ job.type > t)
        IN  /\ \A j \in 1..Len(pages) : pages[j] = (j - 1) * size + 1
            /\ stop # 0 => \A j \in 1..Len(pages) : pages[j] <= stop
            /\ stop = 0 => \A j \in 1..Len(pages) : pages[j] <= n \/ pages[j] = 1
            /\ \A i \in 1..Len(job.kept[t]) : job.kept[t][i] = items[i].track
            /\ Len(job.kept[t]) <= IF stop = 0 THEN n ELSE stop - 1
            /\ finished
                => /\ Len(job.kept[t]) = (IF stop = 0 THEN n ELSE stop - 1)
                   /\ Len(pages) = (IF stop # 0 THEN CeilDiv(stop, size)
                                    ELSE IF n = 0 THEN 1 ELSE CeilDiv(n, size))

C9_Witness ==
    /\ job.status = "walked"
    /\ job.feeds[1] = <<"in", "in", "in", "before">>
    /\ job.feeds[2] = <<"in", "before", "in">>
    /\ job.page_size = 2
    /\ job.kept = <<<<11, 12, 13>>, <<21>>>>
    /\ job.fetched = <<<<1, 3>>, <<1>>>>

====
